---- MODULE Spec2Model ----
(***************************************************************************)
(* Guest side of the plugitin call bridge (plugitin/src/client.rs,         *)
(* plugitin/src/lib.rs) with the example plugin's message types            *)
(* (cool_plugin/src/lib.rs).                                               *)
(*                                                                         *)
(* The guest's linear memory is a finite set of region base addresses.     *)
(* A Box<[u8]> is the fat pointer [ptr, len]; its bytes live in the heap.  *)
(* 32- and 64-bit words are kept at full width as little-endian sequences  *)
(* of 16-bit limbs, so that the descriptor codec is computed as the code   *)
(* computes it.                                                            *)
(*                                                                         *)
(* The host is the environment.  It keeps the contracts the specification  *)
(* leaves to it: it passes live handles and descriptors over memory it got *)
(* from plugitin_alloc, and it destroys an instance only when no call is   *)
(* open.  It is free to call plugitin_client_call again from inside its    *)
(* plugitin_host_call handler: nothing at the boundary stops it.  info_ref *)
(* then hands out a second &mut PluginInfo; that aliasing is undefined     *)
(* behaviour in Rust, and what the builds do with it is the plain          *)
(* interleaving of the two frames on the one record (neither frame keeps a *)
(* field of the record in a local across the call out), which is what the  *)
(* frames of `stack` do.                                                   *)
(*                                                                         *)
(* The allocator is first-fit: a new region goes to the lowest free        *)
(* address.                                                                *)
(***************************************************************************)
EXTENDS Integers, Sequences, FiniteSets, TLC

\* ------------------------------------------------------------- bounds

\* Heap regions that can be live at once.
HeapSlots == 5
\* Fields a generic payload carries after its variant tag.
MaxFields == 1
\* Client-call frames that can be open at once (1 = no re-entry).
MaxDepth == 2

\* ------------------------------------------------------------- words

Limb == 65536

RECURSIVE BitOr(_, _)
\* Bitwise OR of two naturals.
BitOr(a, b) ==
    IF a = 0 THEN b
    ELSE IF b = 0 THEN a
    ELSE (IF a % 2 = 1 \/ b % 2 = 1 THEN 1 ELSE 0) + 2 * BitOr(a \div 2, b \div 2)

\* A small natural as a u32: two 16-bit limbs, low limb first.
U32(n) == <<n % Limb, (n \div Limb) % Limb>>
\* The value of a u32 whose high limb is below 2^15.
Nat32(w) == w[1] + Limb * w[2]
\* `x as u64` of a u32: zero extension.
AsU64(w) == <<w[1], w[2], 0, 0>>
\* `x << 32` on a u64: the two high limbs fall off.
Shl32(w) == <<0, 0, w[1], w[2]>>
\* `x >> 32` on a u64.
Shr32(w) == <<w[3], w[4], 0, 0>>
\* `x | y` on u64.
Or64(a, b) == [i \in 1..4 |-> BitOr(a[i], b[i])]
\* `x as u32` of a u64: truncation to the low 32 bits.
AsU32(w) == <<w[1], w[2]>>

\* pack_buffer_desc with the shift one limb short: the length lands on the
\* pointer's high half.
pack_buffer_desc_shift16(ptr, len) ==
    Or64(AsU64(ptr), <<0, len[1], len[2], 0>>)

\* (ptr as u64) | ((len as u64) << 32)
pack_buffer_desc(ptr, len) == Or64(AsU64(ptr), Shl32(AsU64(len)))

\* unpack_buffer_desc with the shift one limb short: the length is read
\* from bits [16,48).
unpack_buffer_desc_shift16(packed) == <<AsU32(packed), <<packed[2], packed[3]>>>>

\* (packed as u32, (packed >> 32) as u32)
unpack_buffer_desc(packed) == <<AsU32(packed), AsU32(Shr32(packed))>>

\* ------------------------------------------------------------- payloads

\* bincode writes an enum's variant index as a little-endian u32.
VariantTagLen == 4
\* The example plugin's message enums have one variant each, index 0.
NumVariants == 1

\* Values the plugin serialises (ClientCallOutput, HostCallInput; the trait
\* leaves the types to the plugin): the unit value, or a variant of a
\* two-variant enum carrying up to MaxFields u8 fields, each 1.  The example
\* plugin's Bar and Baz are [variant |-> 0, fields |-> <<>>].
Unit == [unit |-> TRUE]
OutVariants == {0, 1}
FieldSeqs == {[i \in 1..n |-> 1] : n \in 0..MaxFields}
EnumValues == [variant : OutVariants, fields : FieldSeqs]
Values == {Unit} \cup EnumValues

LE32(n) == <<n % 256, (n \div 256) % 256, (n \div 65536) % 256, 0>>

\* bincode's encoding: nothing for unit; the variant index as u32 LE, then
\* each u8 field as itself.
Encode(v) == IF v = Unit THEN <<>> ELSE LE32(v.variant) \o v.fields

serialized_size(v) == Len(Encode(v))

Zeroes(n) == [i \in 1..n |-> 0]

\* serialize_into(&mut [u8], v): the slice is the writer, so the encoding
\* lands on its first bytes and the rest is left alone.
serialize_into(bytes, v) ==
    [i \in 1..Len(bytes) |-> IF i <= serialized_size(v) THEN Encode(v)[i] ELSE bytes[i]]

DecodeError == [error |-> TRUE]

\* deserialize_from(&[u8]) for a fieldless enum (ClientInput, HostOutput):
\* reads the u32 variant index; fails on a short read or an unknown index;
\* bytes after the value are not looked at.
deserialize_from(bytes) ==
    IF Len(bytes) < VariantTagLen THEN DecodeError
    ELSE LET idx == bytes[1] + 256 * bytes[2] + 65536 * bytes[3]
         IN  IF bytes[4] = 0 /\ idx < NumVariants
             THEN [variant |-> idx, fields |-> <<>>]
             ELSE DecodeError

\* ------------------------------------------------------------- state

VARIABLES
    info,     \* the PluginInfo record behind the handle, or NoInfo
    heap,     \* guest linear memory: region base address -> region
    stack,    \* open plugitin_client_call frames, innermost last
    ret,      \* what the last finished plugitin_client_call gave the host
    written,  \* history: largest encoded size written to each buffer
    codec     \* the descriptor codec applied to sampled words

vars == <<info, heap, stack, ret, written, codec>>

\* NonNull::dangling() of a u8: where an empty boxed slice points.
Dangling == 1
HeapAddrs == (Dangling + 1)..(Dangling + HeapSlots)

NoInfo == [live |-> FALSE]
Free == [kind |-> "free", bytes |-> <<>>]
EmptyBox == [ptr |-> Dangling, len |-> 0]
NoRet == [kind |-> "none"]
CodecIdle == [phase |-> "idle"]

FreeAddrs == {a \in HeapAddrs : heap[a].kind = "free"}
\* Where the allocator puts the next region: the lowest free address.
NextFree == CHOOSE a \in FreeAddrs : \A b \in FreeAddrs : a <= b
HostRegions == {a \in HeapAddrs : heap[a].kind = "host"}

\* The bytes a box's slice covers.
BoxBytes(h, box) == IF box.len = 0 THEN <<>> ELSE h[box.ptr].bytes

\* The bytes a descriptor names: len bytes at ptr.
DescBytes(h, packed) ==
    LET d == unpack_buffer_desc(packed)
        ptr == Nat32(d[1])
        len == Nat32(d[2])
    IN  IF len = 0 THEN <<>> ELSE SubSeq(h[ptr].bytes, 1, len)

Init ==
    /\ info = NoInfo
    /\ heap = [a \in HeapAddrs |-> Free]
    /\ stack = <<>>
    /\ ret = NoRet
    /\ written = [cco |-> 0, hci |-> 0]
    /\ codec = CodecIdle

\* ------------------------------------------------------------- lifecycle

\* P::new() of the modelled plugin.
InitialPlugin == 0

plugitin_init_impl ==
    /\ ~info.live
    /\ FreeAddrs # {}
    /\ heap' = [heap EXCEPT ![NextFree] = [kind |-> "info", bytes |-> <<>>]]
    /\ info' = [live |-> TRUE, addr |-> NextFree, plugin |-> InitialPlugin,
                client_call_output_buffer |-> EmptyBox,
                host_call_input_buffer |-> EmptyBox]
    /\ written' = [cco |-> 0, hci |-> 0]
    /\ UNCHANGED <<stack, ret, codec>>

\* Dropping a Box<[u8]>: an empty slice owns no allocation.
DropBox(h, box) == IF box.len = 0 THEN h ELSE [h EXCEPT ![box.ptr] = Free]

\* The host destroys an instance when no call is open and after giving
\* back what it allocated (plugitin_dealloc needs the handle).
plugitin_destroy_impl ==
    /\ info.live
    /\ stack = <<>>
    /\ HostRegions = {}
    /\ heap' = [DropBox(DropBox(heap, info.client_call_output_buffer),
                        info.host_call_input_buffer) EXCEPT ![info.addr] = Free]
    /\ info' = NoInfo
    /\ ret' = NoRet
    /\ UNCHANGED <<stack, written, codec>>

\* ------------------------------------------------------------- host memory

\* The host stages a request or a response in one region it got from
\* plugitin_alloc, and gives it back before it asks for another.  The region
\* holds an encoded Foo or Qux and one byte more.
StagingSize == VariantTagLen + 1
AllocSizes == {StagingSize}
\* What the host writes there: a first byte that is variant 0 (Foo, Qux) or
\* an unknown variant, and 0 in every other byte.
HostWrites == {[i \in 1..StagingSize |-> IF i = 1 THEN t ELSE 0] : t \in {0, 1}}
\* The lengths of the descriptors it passes: a short read, the exact
\* encoding, the encoding with a further byte behind it.
DescLens == {VariantTagLen - 2, VariantTagLen, StagingSize}

\* The host is in control: no call is open, or the innermost one waits in
\* plugitin_host_call.
Top == stack[Len(stack)]
HostRuns == IF stack = <<>> THEN TRUE ELSE Top.pc = "host_call"

\* Plugin::alloc, the default: alloc_zeroed(layout).
plugitin_alloc_impl(size) ==
    /\ info.live
    /\ HostRuns
    /\ HostRegions = {}
    /\ FreeAddrs # {}
    /\ heap' = [heap EXCEPT ![NextFree] = [kind |-> "host", bytes |-> Zeroes(size)]]
    /\ UNCHANGED <<info, stack, ret, written, codec>>

\* Plugin::dealloc, the default: dealloc(ptr, layout), on a region the host
\* got from plugitin_alloc.
plugitin_dealloc_impl(ptr) ==
    /\ info.live
    /\ HostRuns
    /\ ptr \in HostRegions
    /\ heap' = [heap EXCEPT ![ptr] = Free]
    /\ UNCHANGED <<info, stack, ret, written, codec>>

\* The host fills the region it allocated.
HostWrite(ptr, bytes) ==
    /\ info.live
    /\ HostRuns
    /\ ptr \in HostRegions
    /\ Len(heap[ptr].bytes) = Len(bytes)
    /\ heap[ptr].bytes # bytes
    /\ heap' = [heap EXCEPT ![ptr].bytes = bytes]
    /\ UNCHANGED <<info, stack, ret, written, codec>>

\* The descriptors the host can pass: over its region, of a length in it.
HostDescs ==
    {pack_buffer_desc(U32(ptr), U32(len)) :
        ptr \in HostRegions, len \in DescLens}

\* ------------------------------------------------------------- buffers

\* The capacity step of plugitin_client_call_impl and Host::call, growing
\* even when the buffer is exactly large enough.
ensure_capacity_ge(h, box, n, a) ==
    IF n >= box.len /\ n > 0
    THEN [heap |-> [DropBox(h, box) EXCEPT ![a] = [kind |-> "buf", bytes |-> Zeroes(n)]],
          box |-> [ptr |-> a, len |-> n]]
    ELSE [heap |-> h, box |-> box]

\* The capacity step, installing a buffer sized to what is needed now
\* whether that is more or less than before.
ensure_capacity_fit(h, box, n, a) ==
    IF n # box.len /\ n > 0
    THEN [heap |-> [DropBox(h, box) EXCEPT ![a] = [kind |-> "buf", bytes |-> Zeroes(n)]],
          box |-> [ptr |-> a, len |-> n]]
    ELSE [heap |-> h, box |-> box]

\* The capacity step, rounding the new capacity up by one byte.
ensure_capacity_slack(h, box, n, a) ==
    IF n > box.len
    THEN [heap |-> [DropBox(h, box) EXCEPT ![a] = [kind |-> "buf", bytes |-> Zeroes(n + 1)]],
          box |-> [ptr |-> a, len |-> n + 1]]
    ELSE [heap |-> h, box |-> box]

\* The capacity step, growing an empty buffer only: a buffer that already
\* holds an allocation is taken to be large enough.
ensure_capacity_once(h, box, n, a) ==
    IF n > box.len /\ box.len = 0
    THEN [heap |-> [DropBox(h, box) EXCEPT ![a] = [kind |-> "buf", bytes |-> Zeroes(n)]],
          box |-> [ptr |-> a, len |-> n]]
    ELSE [heap |-> h, box |-> box]

\* The capacity step, forgetting the old box instead of dropping it: the
\* region it owned stays allocated with no owner.
ensure_capacity_forget(h, box, n, a) ==
    IF n > box.len
    THEN [heap |-> [h EXCEPT ![a] = [kind |-> "buf", bytes |-> Zeroes(n)]],
          box |-> [ptr |-> a, len |-> n]]
    ELSE [heap |-> h, box |-> box]

\* The capacity step: if n > buffer.len(), vec![0u8; n].into_boxed_slice()
\* at a fresh address `a`, and mem::replace drops the old box.
ensure_capacity(h, box, n, a) ==
    IF n > box.len
    THEN [heap |-> [DropBox(h, box) EXCEPT ![a] = [kind |-> "buf", bytes |-> Zeroes(n)]],
          box |-> [ptr |-> a, len |-> n]]
    ELSE [heap |-> h, box |-> box]

\* The allocator can serve a buffer of n bytes replacing `box`.
CanStore(box, n) == n > box.len => FreeAddrs # {}

\* serialize_into(&mut buffer, v) on the heap.
write_buffer(h, box, v) ==
    IF box.len = 0 THEN h
    ELSE [h EXCEPT ![box.ptr].bytes = serialize_into(@, v)]

\* The capacity step and then the write.
store(h, box, v) ==
    LET r == ensure_capacity(h, box, serialized_size(v), NextFree)
    IN  [heap |-> write_buffer(r.heap, r.box, v), box |-> r.box]

Max(a, b) == IF a >= b THEN a ELSE b

\* ------------------------------------------------------------- calls

NoDesc == <<0, 0, 0, 0>>
Frame(pc, desc) == [pc |-> pc, desc |-> desc]
Pop == SubSeq(stack, 1, Len(stack) - 1)
SetTop(f) == [stack EXCEPT ![Len(stack)] = f]

\* info_ref, unpack_buffer_desc, from_raw_parts, deserialize_from: the value
\* the request bytes decode to, or DecodeError.
call_input(input_packed) == deserialize_from(DescBytes(heap, input_packed))

\* plugitin_client_call_impl up to plugin.call: the request decodes, Host::new
\* borrows host_call_input_buffer, user logic starts.
ClientCallEnter(input_packed) ==
    /\ info.live
    /\ HostRuns
    /\ Len(stack) < MaxDepth
    /\ call_input(input_packed) # DecodeError
    /\ stack' = Append(stack, Frame("user", NoDesc))
    /\ ret' = NoRet
    /\ UNCHANGED <<info, heap, written, codec>>

\* A failed decode that has already given up the output buffer.
ClientCallTrapDirty(input_packed) ==
    /\ info.live
    /\ HostRuns
    /\ Len(stack) < MaxDepth
    /\ call_input(input_packed) = DecodeError
    /\ heap' = DropBox(heap, info.client_call_output_buffer)
    /\ info' = [info EXCEPT !.client_call_output_buffer = EmptyBox,
                            !.plugin = InitialPlugin]
    /\ ret' = [kind |-> "trap"]
    /\ UNCHANGED <<stack, written, codec>>

\* plugitin_client_call_impl when deserialize_from fails: expect() panics
\* before Host::new and before plugin.call.
ClientCallTrap(input_packed) ==
    /\ info.live
    /\ HostRuns
    /\ Len(stack) < MaxDepth
    /\ call_input(input_packed) = DecodeError
    /\ ret' = [kind |-> "trap"]
    /\ UNCHANGED <<info, heap, stack, written, codec>>

\* Host::call serialising the request into client_call_output_buffer, as if
\* the guest had one buffer for both directions.
HostCallIntoOutput(v) ==
    /\ stack # <<>>
    /\ Top.pc = "user"
    /\ CanStore(info.client_call_output_buffer, serialized_size(v))
    /\ LET r == store(heap, info.client_call_output_buffer, v)
       IN  /\ heap' = r.heap
           /\ info' = [info EXCEPT !.client_call_output_buffer = r.box]
           /\ stack' = SetTop(Frame("host_call",
                                    pack_buffer_desc(U32(r.box.ptr), U32(serialized_size(v)))))
    /\ written' = [written EXCEPT !.cco = Max(@, serialized_size(v))]
    /\ UNCHANGED <<ret, codec>>

\* Host::call up to and including the call of plugitin_host_call.
HostCall(v) ==
    /\ stack # <<>>
    /\ Top.pc = "user"
    /\ CanStore(info.host_call_input_buffer, serialized_size(v))
    /\ LET r == store(heap, info.host_call_input_buffer, v)
       IN  /\ heap' = r.heap
           /\ info' = [info EXCEPT !.host_call_input_buffer = r.box]
           /\ stack' = SetTop(Frame("host_call",
                                    pack_buffer_desc(U32(r.box.ptr), U32(serialized_size(v)))))
    /\ written' = [written EXCEPT !.hci = Max(@, serialized_size(v))]
    /\ UNCHANGED <<ret, codec>>

\* plugitin_host_call returns a descriptor over the host's response and
\* Host::call decodes it.
HostCallReturn(output_packed) ==
    /\ stack # <<>>
    /\ Top.pc = "host_call"
    /\ call_input(output_packed) # DecodeError
    /\ stack' = SetTop(Frame("user", NoDesc))
    /\ UNCHANGED <<info, heap, ret, written, codec>>

\* The response does not decode and Host::call hands the failure to user
\* logic as a value: user logic goes on.
HostCallTrapResume(output_packed) ==
    /\ stack # <<>>
    /\ Top.pc = "host_call"
    /\ call_input(output_packed) = DecodeError
    /\ stack' = SetTop(Frame("user", NoDesc))
    /\ UNCHANGED <<info, heap, ret, written, codec>>

\* The response does not decode: expect() panics inside Host::call and the
\* client call ends there.
HostCallTrap(output_packed) ==
    /\ stack # <<>>
    /\ Top.pc = "host_call"
    /\ call_input(output_packed) = DecodeError
    /\ stack' = Pop
    /\ ret' = [kind |-> "trap"]
    /\ UNCHANGED <<info, heap, written, codec>>

\* What Plugin::call leaves in the plugin value: this plugin remembers the
\* variant it last answered with.
PluginAfter(plugin, v) == IF v = Unit THEN plugin ELSE v.variant

\* plugitin_client_call_impl writing the response and then running user
\* logic again instead of returning.
ClientCallFinishAgain(v) ==
    /\ CanStore(info.client_call_output_buffer, serialized_size(v))
    /\ LET r == store(heap, info.client_call_output_buffer, v)
       IN  /\ heap' = r.heap
           /\ info' = [info EXCEPT !.client_call_output_buffer = r.box]
    /\ stack' = [stack EXCEPT ![Len(stack)] = [pc |-> "user", desc |-> <<0, 0, 0, 0>>]]
    /\ written' = [written EXCEPT !.cco = Max(@, serialized_size(v))]
    /\ UNCHANGED <<ret, codec>>

\* The rest of plugitin_client_call_impl once plugin.call has returned v:
\* size, capacity step, encode, pack.
ClientCallFinish(v) ==
    /\ CanStore(info.client_call_output_buffer, serialized_size(v))
    /\ LET r == store(heap, info.client_call_output_buffer, v)
       IN  /\ heap' = r.heap
           /\ info' = [info EXCEPT !.client_call_output_buffer = r.box,
                                   !.plugin = PluginAfter(@, v)]
           /\ ret' = [kind |-> "desc",
                      packed |-> pack_buffer_desc(U32(r.box.ptr), U32(serialized_size(v)))]
    /\ stack' = Pop
    /\ written' = [written EXCEPT !.cco = Max(@, serialized_size(v))]
    /\ UNCHANGED codec

\* plugin.call returns v, and plugitin_client_call_impl finishes.
ClientCallReturn(v) ==
    /\ stack # <<>>
    /\ Top.pc = "user"
    /\ ClientCallFinish(v)

Next ==
    \/ plugitin_init_impl
    \/ plugitin_destroy_impl
    \/ \E size \in AllocSizes : plugitin_alloc_impl(size)
    \/ \E ptr \in HeapAddrs : plugitin_dealloc_impl(ptr)
    \/ \E ptr \in HeapAddrs, bytes \in HostWrites : HostWrite(ptr, bytes)
    \/ \E input_packed \in HostDescs : ClientCallEnter(input_packed)
    \/ \E input_packed \in HostDescs : ClientCallTrap(input_packed)
    \/ \E v \in Values : HostCall(v)
    \/ \E output_packed \in HostDescs : HostCallReturn(output_packed)
    \/ \E output_packed \in HostDescs : HostCallTrap(output_packed)
    \/ \E v \in Values : ClientCallReturn(v)

Spec == Init /\ [][Next]_vars

\* ------------------------------------------------------------- the example plugin

\* cool_plugin's messages: one fieldless variant each.
Foo == [variant |-> 0, fields |-> <<>>]
Bar == [variant |-> 0, fields |-> <<>>]
Baz == [variant |-> 0, fields |-> <<>>]
Qux == [variant |-> 0, fields |-> <<>>]

\* The host's own two buffers (what it passes into a call, what it answers
\* a nested call with) are regions it got from plugitin_alloc.
HostBuffers == 2

\* plugitin_alloc_impl for a host that stages each of its two buffers in a
\* region of its own.
HostBufferAlloc(size) ==
    /\ info.live
    /\ HostRuns
    /\ Cardinality(HostRegions) < HostBuffers
    /\ FreeAddrs # {}
    /\ heap' = [heap EXCEPT ![NextFree] = [kind |-> "host", bytes |-> Zeroes(size)]]
    /\ UNCHANGED <<info, stack, ret, written, codec>>

\* CoolPlugin::call, first statement: host.call(HostInput::Baz).
CoolHostCall == HostCall(Baz)

\* Host::call gets the response and decodes it; CoolPlugin::call matches it
\* against HostOutput::Qux, the one variant there is.
CoolHostCallReturn(output_packed) ==
    /\ stack # <<>>
    /\ Top.pc = "host_call"
    /\ call_input(output_packed) = Qux
    /\ stack' = SetTop(Frame("matched", NoDesc))
    /\ UNCHANGED <<info, heap, ret, written, codec>>

\* CoolPlugin::call returning ClientOutput::Bar without having called the
\* host.
CoolReturnEarly ==
    /\ stack # <<>>
    /\ Top.pc \in {"user", "matched"}
    /\ ClientCallFinish(Bar)

\* CoolPlugin::call, last expression: ClientOutput::Bar, after the match.
CoolReturn ==
    /\ stack # <<>>
    /\ Top.pc = "matched"
    /\ ClientCallFinish(Bar)

CoolNext ==
    \/ plugitin_init_impl
    \/ plugitin_destroy_impl
    \/ \E size \in AllocSizes : HostBufferAlloc(size)
    \/ \E ptr \in HeapAddrs : plugitin_dealloc_impl(ptr)
    \/ \E ptr \in HeapAddrs, bytes \in HostWrites : HostWrite(ptr, bytes)
    \/ \E input_packed \in HostDescs : ClientCallEnter(input_packed)
    \/ \E input_packed \in HostDescs : ClientCallTrap(input_packed)
    \/ CoolHostCall
    \/ \E output_packed \in HostDescs : CoolHostCallReturn(output_packed)
    \/ \E output_packed \in HostDescs : HostCallTrap(output_packed)
    \/ CoolReturn

SpecCool == Init /\ [][CoolNext]_vars

\* The example plugin with a host that answers every plugitin_host_call with
\* bytes that decode.  The guest is straight-line code: once user logic or
\* the rest of plugitin_client_call_impl can run, it does.
LiveNext ==
    \/ plugitin_init_impl
    \/ plugitin_destroy_impl
    \/ \E size \in AllocSizes : HostBufferAlloc(size)
    \/ \E ptr \in HeapAddrs : plugitin_dealloc_impl(ptr)
    \/ \E ptr \in HeapAddrs, bytes \in HostWrites : HostWrite(ptr, bytes)
    \/ \E input_packed \in HostDescs : ClientCallEnter(input_packed)
    \/ \E input_packed \in HostDescs : ClientCallTrap(input_packed)
    \/ CoolHostCall
    \/ \E output_packed \in HostDescs : CoolHostCallReturn(output_packed)
    \/ CoolReturn

SpecCoolLive ==
    /\ Init
    /\ [][LiveNext]_vars
    /\ WF_vars(CoolHostCall)
    /\ WF_vars(CoolReturn)

\* ------------------------------------------------------------- descriptor codec

\* 16-bit limbs the sampled u32 words are built from: the ends of the range,
\* the top bit, one byte set, alternating bits.
SampleLimbs == {0, 1, 255, 32768, 43690, 65535}
SampleWords == {<<lo, hi>> : lo \in SampleLimbs, hi \in SampleLimbs}

CodecInit ==
    /\ info = NoInfo
    /\ heap = [a \in HeapAddrs |-> Free]
    /\ stack = <<>>
    /\ ret = NoRet
    /\ written = [cco |-> 0, hci |-> 0]
    /\ \E ptr \in SampleWords, len \in SampleWords :
        codec = [phase |-> "args", ptr |-> ptr, len |-> len,
                 packed |-> NoDesc, out |-> <<U32(0), U32(0)>>]

CodecPack ==
    /\ codec.phase = "args"
    /\ codec' = [codec EXCEPT !.phase = "packed",
                              !.packed = pack_buffer_desc(codec.ptr, codec.len)]
    /\ UNCHANGED <<info, heap, stack, ret, written>>

CodecUnpack ==
    /\ codec.phase = "packed"
    /\ codec' = [codec EXCEPT !.phase = "unpacked",
                              !.out = unpack_buffer_desc(codec.packed)]
    /\ UNCHANGED <<info, heap, stack, ret, written>>

CodecNext == CodecPack \/ CodecUnpack

SpecCodec == CodecInit /\ [][CodecNext]_vars

\* ------------------------------------------------------------- entry-point arguments

\* The entry points with the arguments the host passes them, whatever they
\* are: a handle that may be null or address no live record, a size and an
\* alignment that may form no layout.  Here `ret` is what the last entry
\* point gave the host: a trap, nothing (unit), or a pointer.

RECURSIVE CountOnes(_)
\* u32::count_ones on one limb.
CountOnes(n) == IF n = 0 THEN 0 ELSE (n % 2) + CountOnes(n \div 2)

\* usize::is_power_of_two: exactly one bit set.
is_power_of_two(w) == CountOnes(w[1]) + CountOnes(w[2]) = 1

\* a > b on u32.
Gt32(a, b) == a[2] > b[2] \/ (a[2] = b[2] /\ a[1] > b[1])

\* a - b on u32, for a >= b.
Sub32(a, b) ==
    LET borrow == IF a[1] < b[1] THEN 1 ELSE 0
    IN  <<a[1] + borrow * Limb - b[1], a[2] - borrow - b[2]>>

\* isize::MAX of the 32-bit guest.
ISizeMax == <<65535, 32767>>

LayoutError == [error |-> TRUE]

\* Layout::from_size_align accepting every alignment but zero.
from_size_align_any_align(size, align) ==
    IF align = U32(0) THEN LayoutError
    ELSE [size |-> size, align |-> align]

\* Layout::from_size_align(size, align): the alignment is a power of two
\* (so not zero) and size <= isize::MAX - (align - 1).
from_size_align(size, align) ==
    IF ~is_power_of_two(align) THEN LayoutError
    ELSE IF Gt32(size, Sub32(ISizeMax, Sub32(align, U32(1)))) THEN LayoutError
    ELSE [size |-> size, align |-> align]

\* Handles the host can pass: null, and every address of the heap (the live
\* record's, a destroyed record's, one never returned by plugitin_init).
Handles == {0} \cup HeapAddrs
\* The handle addresses the live record.
AddressesLive(handle) == info.live /\ handle = info.addr

\* Sizes and alignments the host passes, as u32 words: 0, the staging size,
\* 2^31 - 4, 2^31 - 1, 2^32 - 1; and 0, 1, 3, 4, 2^31.
EntrySizes == {U32(0), U32(StagingSize), <<65532, 32767>>, ISizeMax, <<65535, 65535>>}
EntryAligns == {U32(0), U32(1), U32(3), U32(4), <<0, 32768>>}

\* The allocator can place a region of this size in the modelled heap.
Fits(size) == size[2] = 0 /\ size[1] <= StagingSize /\ FreeAddrs # {}

\* An entry-point call and what it gave the host.
Gave(kind, op, handle, size, align, ptr) ==
    [kind |-> kind, op |-> op, handle |-> handle, size |-> size, align |-> align, ptr |-> ptr]

\* plugitin_alloc_impl: info_ref panics on a null handle, expect() panics on
\* a layout error, else the default Plugin::alloc: alloc_zeroed(layout),
\* which gives a zeroed region or null when it cannot serve the request.
\* (alloc_zeroed of a zero size is undefined; the allocators of the builds
\* give a minimal region or null, as for any other size.)  The host holds
\* one region at a time.
AllocEntry(handle, size, align) ==
    /\ info.live
    /\ handle \in {0, info.addr}
    /\ HostRegions = {}
    /\ UNCHANGED <<info, stack, written, codec>>
    /\ IF handle = 0 \/ from_size_align(size, align) = LayoutError
       THEN /\ ret' = Gave("trap", "alloc", handle, size, align, 0)
            /\ UNCHANGED heap
       ELSE \/ /\ Fits(size)
               /\ heap' = [heap EXCEPT ![NextFree] =
                                [kind |-> "host", bytes |-> Zeroes(size[1])]]
               /\ ret' = Gave("ptr", "alloc", handle, size, align, NextFree)
            \/ /\ ret' = Gave("ptr", "alloc", handle, size, align, 0)
               /\ UNCHANGED heap

\* plugitin_dealloc_impl: the same two checks, then the default
\* Plugin::dealloc on a region the host got from plugitin_alloc with this
\* size.
DeallocEntry(handle, ptr, size, align) ==
    /\ info.live
    /\ handle \in {0, info.addr}
    /\ ptr \in HostRegions
    /\ UNCHANGED <<info, stack, written, codec>>
    /\ IF handle = 0 \/ from_size_align(size, align) = LayoutError
       THEN /\ ret' = Gave("trap", "dealloc", handle, size, align, ptr)
            /\ UNCHANGED heap
       ELSE /\ size = U32(Len(heap[ptr].bytes))
            /\ heap' = [heap EXCEPT ![ptr] = Free]
            /\ ret' = Gave("none", "dealloc", handle, size, align, ptr)

\* plugitin_destroy_impl on any handle: Box::from_raw with no check, not
\* even for null.  On the live record it drops the record and its buffers.
\* On anything else it is undefined: the drop reads two boxes from whatever
\* is at the address and hands the address to the allocator as a record;
\* the builds trap in the allocator, or return having released the region
\* at that address from under its owner, or return with nothing visibly
\* changed.
DestroyEntry(handle) ==
    /\ stack = <<>>
    /\ UNCHANGED <<stack, written, codec>>
    /\ IF AddressesLive(handle)
       THEN /\ heap' = [DropBox(DropBox(heap, info.client_call_output_buffer),
                                info.host_call_input_buffer) EXCEPT ![info.addr] = Free]
            /\ info' = NoInfo
            /\ ret' = Gave("none", "destroy", handle, U32(0), U32(0), 0)
       ELSE /\ UNCHANGED info
            /\ \/ /\ ret' = Gave("trap", "destroy", handle, U32(0), U32(0), 0)
                  /\ UNCHANGED heap
               \/ /\ handle \in HostRegions
                  /\ heap' = [heap EXCEPT ![handle] = Free]
                  /\ ret' = Gave("none", "destroy", handle, U32(0), U32(0), 0)
               \/ /\ ret' = Gave("none", "destroy", handle, U32(0), U32(0), 0)
                  /\ UNCHANGED heap

\* plugitin_init_impl, seen from the host: it gives the handle.
InitEntry ==
    /\ ~info.live
    /\ FreeAddrs # {}
    /\ heap' = [heap EXCEPT ![NextFree] = [kind |-> "info", bytes |-> <<>>]]
    /\ info' = [live |-> TRUE, addr |-> NextFree, plugin |-> InitialPlugin,
                client_call_output_buffer |-> EmptyBox,
                host_call_input_buffer |-> EmptyBox]
    /\ ret' = Gave("ptr", "init", 0, U32(0), U32(0), NextFree)
    /\ UNCHANGED <<stack, written, codec>>

EntryNext ==
    \/ InitEntry
    \/ \E handle \in Handles : DestroyEntry(handle)
    \/ \E handle \in Handles, size \in EntrySizes, align \in EntryAligns :
            AllocEntry(handle, size, align)
    \/ \E handle \in Handles, ptr \in HeapAddrs, size \in EntrySizes, align \in EntryAligns :
            DeallocEntry(handle, ptr, size, align)

EntryInit ==
    /\ info = NoInfo
    /\ heap = [a \in HeapAddrs |-> Free]
    /\ stack = <<>>
    /\ ret = Gave("none", "none", 0, U32(0), U32(0), 0)
    /\ written = [cco |-> 0, hci |-> 0]
    /\ codec = CodecIdle

SpecEntry == EntryInit /\ [][EntryNext]_vars

\* ------------------------------------------------------------- size narrowing

\* The size arithmetic of plugitin_client_call_impl and Host::call on
\* payloads of any encoded size: serialized_size gives a u64, the capacity
\* step and vec! take it `as usize`, the descriptor takes it `as u32`.  The
\* record `codec` follows one write: the encoded size, the capacity the
\* buffer had, the width of usize in the build (32 on the wasm32 guest, 64
\* when the crate is built for a 64-bit host), and what the code computes.

\* Limbs the sampled sizes are built from.
WideLimbs == {0, 4, 65535}
\* Encoded sizes, as u64: below 2^32, and 2^32 more.
WideSizes == {<<a, b, c, 0>> : a \in WideLimbs, b \in WideLimbs, c \in {0, 1}}
\* Capacities the buffer can have before the write, as usize.
WideCaps == {<<0, 0, 0, 0>>, <<4, 0, 0, 0>>, <<0, 1, 0, 0>>}
UsizeBits == {32, 64}

\* `x as usize` of a u64.
AsUsize(w, bits) == IF bits = 32 THEN <<w[1], w[2], 0, 0>> ELSE w

\* a > b on u64.
Gt64(a, b) ==
    \E i \in 1..4 : a[i] > b[i] /\ \A j \in (i + 1)..4 : a[j] = b[j]

WideInit ==
    /\ info = NoInfo
    /\ heap = [a \in HeapAddrs |-> Free]
    /\ stack = <<>>
    /\ ret = NoRet
    /\ written = [cco |-> 0, hci |-> 0]
    /\ \E size \in WideSizes, cap \in WideCaps, bits \in UsizeBits, op \in {"client_call", "host_call"} :
        codec = [phase |-> "size", op |-> op, bits |-> bits, size |-> size, cap |-> cap,
                 n |-> <<0, 0, 0, 0>>, desc_len |-> U32(0)]

\* let len = serialized_size(..) as usize; if len > buffer.len() { buffer =
\* vec![0u8; len] }.  vec! of a size the allocator cannot serve aborts.
WideCapacity ==
    /\ codec.phase = "size"
    /\ LET n == AsUsize(codec.size, codec.bits)
       IN  \/ codec' = [codec EXCEPT !.phase = "sized", !.n = n,
                                     !.cap = IF Gt64(n, codec.cap) THEN n ELSE codec.cap]
           \/ /\ Gt64(n, codec.cap)
              /\ Gt64(n, <<65535, 0, 0, 0>>)
              /\ codec' = [codec EXCEPT !.phase = "trap", !.n = n]
    /\ UNCHANGED <<info, heap, stack, ret, written>>

\* serialize_into(&mut buffer, ..).expect(..): the slice is the writer, and
\* an encoding longer than the slice fails.
WideSerialize ==
    /\ codec.phase = "sized"
    /\ codec' = [codec EXCEPT !.phase = IF Gt64(codec.size, codec.cap) THEN "trap" ELSE "written"]
    /\ UNCHANGED <<info, heap, stack, ret, written>>

\* pack_buffer_desc(ptr, len as u32), transmitted to the host.
WidePack ==
    /\ codec.phase = "written"
    /\ codec' = [codec EXCEPT !.phase = "sent", !.desc_len = AsU32(codec.size)]
    /\ UNCHANGED <<info, heap, stack, ret, written>>

WideNext == WideCapacity \/ WideSerialize \/ WidePack

SpecWide == WideInit /\ [][WideNext]_vars

\* ------------------------------------------------------------- reading the state

cco == info.client_call_output_buffer
hci == info.host_call_input_buffer
DescPtr(packed) == Nat32(unpack_buffer_desc(packed)[1])
DescLen(packed) == Nat32(unpack_buffer_desc(packed)[2])
MaxSize == VariantTagLen + MaxFields

\* Frames waiting in plugitin_host_call.
Waiting == {i \in 1..Len(stack) : stack[i].pc = "host_call"}

\* This step is Host::call writing a request and calling the host.
HostCallStep ==
    /\ stack # <<>>
    /\ Top.pc = "user"
    /\ Len(stack') = Len(stack)
    /\ stack'[Len(stack')].pc = "host_call"

\* This step is plugitin_client_call_impl writing the response and returning.
ReturnStep ==
    /\ stack # <<>>
    /\ Top.pc = "user"
    /\ Len(stack') = Len(stack) - 1

\* This step is plugitin_client_call_impl panicking on the request bytes.
EntryTrapStep ==
    /\ ret.kind # "trap"
    /\ ret'.kind = "trap"
    /\ Len(stack') = Len(stack)

\* This step is the host invoking plugitin_client_call or plugitin_destroy.
InvokeStep ==
    \/ Len(stack') > Len(stack)
    \/ EntryTrapStep
    \/ (info.live /\ ~info'.live)

\* The heap outside region a is as it was.
SameExcept(a) == \A b \in HeapAddrs \ {a} : heap'[b] = heap[b]

\* A write step of size n on a buffer that was `old` and is now `new`
\* grew it as the capacity step says.
GrowsAsNeeded(old, new, n) ==
    /\ new.len >= n
    /\ n > old.len => new.len = n
    /\ n <= old.len => new.len = old.len
    /\ \A m \in 0..n : ensure_capacity(heap', new, m, Dangling).box.len = new.len

\* A write step of size n <= capacity left the box where it was, and the
\* bytes behind the encoding as they were.
WritesInPlace(old, new, n) ==
    n <= old.len =>
        /\ new = old
        /\ SameExcept(old.ptr)
        /\ \A i \in (n + 1)..old.len : BoxBytes(heap', new)[i] = BoxBytes(heap, old)[i]

\* ------------------------------------------------------------- claims

\* C1: at most one CallContext (Host handle) is live per instance, whatever
\* the host does, a call of plugitin_client_call from inside its
\* plugitin_host_call handler included.  Every open frame holds one Host.
C1_AtMostOneCallContext == Len(stack) <= 1

\* C2: no guest step replaces or rewrites a buffer while a descriptor over it
\* is outstanding at the host: the descriptor of host_call_input_buffer of
\* every frame that waits in plugitin_host_call, before and after the step,
\* names the same region with the same bytes; and when a client call returns
\* its descriptor the host is in control, so that no guest step runs while
\* it reads.
C2_OutstandingBuffersUntouched ==
    [][/\ \A i \in Waiting :
            (i <= Len(stack') /\ stack'[i] = stack[i] /\ DescPtr(stack[i].desc) \in HeapAddrs)
                => heap'[DescPtr(stack[i].desc)] = heap[DescPtr(stack[i].desc)]
       /\ (ReturnStep /\ ret'.kind = "desc") => HostRuns']_vars

\* C3: the descriptor plugitin_client_call returns names the live
\* client_call_output_buffer, with a length within its capacity; and every
\* step that is not the next invocation of plugitin_client_call or
\* plugitin_destroy (plugitin_alloc and plugitin_dealloc among them) leaves
\* a descriptor of one byte or more over that buffer, with the bytes it
\* names as they were.
C3_ReturnedDescriptorStable ==
    /\ [][(ReturnStep /\ ret'.kind = "desc") =>
            (info'.live /\ DescPtr(ret'.packed) = cco'.ptr /\ DescLen(ret'.packed) <= cco'.len)]_vars
    /\ [][(ret.kind = "desc" /\ DescLen(ret.packed) > 0 /\ ~InvokeStep) =>
            /\ info'.live
            /\ DescPtr(ret.packed) = cco'.ptr
            /\ DescLen(ret.packed) <= cco'.len
            /\ DescBytes(heap', ret.packed) = DescBytes(heap, ret.packed)]_vars

\* C4: between construct and destroy no step lowers the capacity of
\* client_call_output_buffer or of host_call_input_buffer.
C4_CapacityNeverShrinks ==
    [][(info.live /\ info'.live) => (cco'.len >= cco.len /\ hci'.len >= hci.len)]_vars

\* C4 witness: each buffer holds a payload shorter than its capacity, so a
\* smaller write came after a larger one.
C4_Witness ==
    /\ info.live
    /\ ret.kind = "desc"
    /\ DescLen(ret.packed) < cco.len
    /\ stack # <<>>
    /\ Top.pc = "host_call"
    /\ DescLen(Top.desc) < hci.len

\* C5: unpack_buffer_desc(pack_buffer_desc(offset, length)) = (offset,
\* length) for 32-bit offset and length.
C5_UnpackPackRoundTrip ==
    codec.phase = "unpacked" => codec.out = <<codec.ptr, codec.len>>

\* C5 witness: the round trip was taken with every bit of both words set.
C5_Witness ==
    /\ codec.phase = "unpacked"
    /\ codec.ptr = <<65535, 65535>>
    /\ codec.len = <<65535, 65535>>

\* C6: a client call whose request bytes do not decode ends before user
\* logic runs (no frame is opened) and leaves the plugin value, both buffers
\* and the whole heap as they were; and after it, a call with request bytes
\* that decode is accepted, and user logic that is running can return a
\* response.
C6_DecodeFailureLeavesInstanceIntact ==
    /\ [][EntryTrapStep => (info' = info /\ heap' = heap /\ stack' = stack)]_vars
    /\ [](ret.kind = "trap" =>
            /\ info.live
            /\ \A d \in HostDescs :
                (call_input(d) # DecodeError /\ HostRuns /\ Len(stack) < MaxDepth)
                    => ENABLED ClientCallEnter(d))
    /\ []((stack # <<>> /\ Top.pc = "user") => ENABLED ClientCallReturn(Unit))

\* C6 witness: a request failed to decode on an instance whose plugin value
\* and both buffers had been written by earlier calls.
C6_Witness ==
    /\ ret.kind = "trap"
    /\ stack = <<>>
    /\ info.live
    /\ info.plugin # InitialPlugin
    /\ cco.len = MaxSize
    /\ hci.len = MaxSize

\* C7: outbound calls are sequential and properly nested: at most one
\* Host::call of the instance waits for its response, a client call returns
\* only from user logic (not while an outbound call of its own is open), and
\* no client call begins before the one before it has completed.
C7_CallsStrictlySequential ==
    /\ [](Cardinality(Waiting) <= 1 /\ Len(stack) <= 1)
    /\ [][(Len(stack') < Len(stack) /\ ret'.kind = "desc") => Top.pc = "user"]_vars

\* C8: a write of encoded size n is preceded by a capacity step after which
\* capacity >= n; a buffer that had to grow has capacity exactly n; and a
\* further capacity step with any m <= n changes nothing.
C8_CapacityStepSizesExactly ==
    [][/\ HostCallStep => GrowsAsNeeded(hci, hci', DescLen(stack'[Len(stack')].desc))
       /\ (ReturnStep /\ ret'.kind = "desc") => GrowsAsNeeded(cco, cco', DescLen(ret'.packed))]_vars

\* C8 witness: both buffers were grown, each to exactly the size of the
\* payload it now holds.
C8_Witness ==
    /\ info.live
    /\ ret.kind = "desc"
    /\ DescLen(ret.packed) = MaxSize
    /\ cco.len = MaxSize
    /\ stack # <<>>
    /\ Top.pc = "host_call"
    /\ DescLen(Top.desc) = MaxSize
    /\ hci.len = MaxSize

\* C9: when the encoded size n is within the capacity, the capacity step
\* changes neither the heap nor the box (no reallocation, no zeroing), and
\* the write changes only the first n bytes of that buffer.
C9_NoGrowthLeavesBufferInPlace ==
    /\ [](info.live =>
            /\ \A n \in 0..cco.len : ensure_capacity(heap, cco, n, Dangling) = [heap |-> heap, box |-> cco]
            /\ \A n \in 0..hci.len : ensure_capacity(heap, hci, n, Dangling) = [heap |-> heap, box |-> hci])
    /\ [][/\ HostCallStep => WritesInPlace(hci, hci', DescLen(stack'[Len(stack')].desc))
          /\ (ReturnStep /\ ret'.kind = "desc") => WritesInPlace(cco, cco', DescLen(ret'.packed))]_vars

\* C9 witness: each buffer took a shorter payload in place: the last byte
\* of the longer one is still behind it.
C9_Witness ==
    /\ info.live
    /\ ret.kind = "desc"
    /\ DescLen(ret.packed) = VariantTagLen
    /\ cco.len = MaxSize
    /\ BoxBytes(heap, cco)[MaxSize] = 1
    /\ stack # <<>>
    /\ Top.pc = "host_call"
    /\ DescLen(Top.desc) = VariantTagLen
    /\ hci.len = MaxSize
    /\ BoxBytes(heap, hci)[MaxSize] = 1

\* C10: from construct on, the capacity of each buffer is the largest
\* encoded size written to it so far (0 if none), and a write moves the
\* buffer to a new allocation exactly when its size exceeds every earlier
\* one.
C10_CapacityIsMaxWritten ==
    /\ [](info.live => (cco.len = written.cco /\ hci.len = written.hci))
    /\ [][/\ HostCallStep =>
                (hci'.ptr # hci.ptr <=> DescLen(stack'[Len(stack')].desc) > written.hci)
          /\ (ReturnStep /\ ret'.kind = "desc") =>
                (cco'.ptr # cco.ptr <=> DescLen(ret'.packed) > written.cco)]_vars

\* C10 witness: both buffers stand at the largest size written, and the
\* last write to each was an empty payload that moved nothing.
C10_Witness ==
    /\ info.live
    /\ written.cco = MaxSize
    /\ written.hci = MaxSize
    /\ ret.kind = "desc"
    /\ DescLen(ret.packed) = 0
    /\ cco.ptr # Dangling
    /\ stack # <<>>
    /\ Top.pc = "host_call"
    /\ DescLen(Top.desc) = 0
    /\ hci.ptr # Dangling

\* The regions the instance owns: its record and the allocation behind each
\* buffer that is not empty.
Owned ==
    {info.addr} \cup {b.ptr : b \in {x \in {cco, hci} : x.len > 0}}

\* Regions that were allocated by the guest for itself and are not released.
GuestRegions == {a \in HeapAddrs : heap[a].kind \in {"info", "buf"}}

\* C11: every region the instance ever owned is released exactly once by the
\* time plugitin_destroy returns.  While the instance lives, the regions the
\* guest has allocated for itself and not released are exactly the record
\* and the two current buffers, each a live allocation of its own (so a
\* replaced buffer is released at the growth, and nothing is released that
\* is still owned); plugitin_destroy releases exactly those; and after it
\* nothing of the guest's is left.
C11_DestroyReleasesEveryRegionOnce ==
    /\ [](info.live =>
            /\ GuestRegions = Owned
            /\ heap[info.addr].kind = "info"
            /\ \A b \in {cco, hci} :
                    b.len > 0 => (heap[b.ptr].kind = "buf" /\ Len(heap[b.ptr].bytes) = b.len)
            /\ (cco.len > 0 /\ hci.len > 0) => cco.ptr # hci.ptr)
    /\ [](~info.live => GuestRegions = {})
    /\ [][(info.live /\ ~info'.live) =>
            \A a \in HeapAddrs :
                /\ a \in Owned => (heap[a] # Free /\ heap'[a] = Free)
                /\ a \notin Owned => heap'[a] = heap[a]]_vars

\* C11 witness: an instance whose two buffers had each grown to the largest
\* payload was destroyed.
C11_Witness ==
    /\ ~info.live
    /\ written.cco = MaxSize
    /\ written.hci = MaxSize
    /\ GuestRegions = {}

\* This step is the entry point `op` called by the host.
EntryStep(op) == ret'.op = op /\ (ret' # ret \/ heap' # heap \/ info' # info)

\* C12: plugitin_destroy on a handle that does not address a live record
\* (null, never returned by plugitin_init, already destroyed) traps and
\* releases nothing.
C12_DestroyOfDeadHandleTraps ==
    [][(EntryStep("destroy") /\ ~AddressesLive(ret'.handle))
            => (ret'.kind = "trap" /\ heap' = heap /\ info' = info)]_vars

\* The 32-bit powers of two.
Pow2Words == {<<2^k, 0>> : k \in 0..15} \cup {<<0, 2^k>> : k \in 0..15}

\* size + (align - 1), the least bound of size rounded up to a multiple of
\* the power of two align, exceeds isize::MAX = 2^31 - 1.
RoundUpOverflows(size, align) ==
    LET am1 == IF align[1] > 0 THEN <<align[1] - 1, 0>> ELSE <<Limb - 1, align[2] - 1>>
        lo == size[1] + am1[1]
        hi == size[2] + am1[2] + (lo \div Limb)
    IN  hi >= 32768

\* The size/alignment combinations that form no layout.
InvalidCombination(size, align) ==
    \/ align = U32(0)
    \/ align \notin Pow2Words
    \/ RoundUpOverflows(size, align)

\* The step returned a pointer the allocator gave: null, or a region that
\* was free and is now a zeroed region of this size, nothing else touched.
FromAllocator(size) ==
    /\ ret'.kind = "ptr"
    /\ info' = info
    /\ \/ (ret'.ptr = 0 /\ heap' = heap)
       \/ /\ ret'.ptr \in HeapAddrs
          /\ heap[ret'.ptr] = Free
          /\ heap'[ret'.ptr] = [kind |-> "host", bytes |-> Zeroes(size[1])]
          /\ SameExcept(ret'.ptr)

\* C13: on a live handle, plugitin_alloc and plugitin_dealloc trap at once,
\* with the heap untouched (the plugin's allocator is not called, nothing is
\* retried), for every size/alignment combination that forms no layout:
\* alignment zero, alignment not a power of two, size overflowing isize when
\* rounded up to the alignment; and for every other combination
\* plugitin_alloc returns what the plugin's allocator gave and
\* plugitin_dealloc releases the region.
C13_InvalidLayoutTrapsValidAllocates ==
    [][/\ (EntryStep("alloc") /\ ret'.handle # 0) =>
            IF InvalidCombination(ret'.size, ret'.align)
            THEN ret'.kind = "trap" /\ heap' = heap /\ info' = info
            ELSE FromAllocator(ret'.size)
       /\ (EntryStep("dealloc") /\ ret'.handle # 0) =>
            IF InvalidCombination(ret'.size, ret'.align)
            THEN ret'.kind = "trap" /\ heap' = heap /\ info' = info
            ELSE /\ ret'.kind = "none"
                 /\ info' = info
                 /\ heap'[ret'.ptr] = Free
                 /\ SameExcept(ret'.ptr)]_vars

\* C13 witness: plugitin_alloc on the live handle trapped on a power-of-two
\* alignment with a size that is in range but overflows when rounded up.
C13_Witness ==
    /\ info.live
    /\ ret.kind = "trap"
    /\ ret.op = "alloc"
    /\ ret.handle # 0
    /\ ret.align = U32(4)
    /\ ret.size = ISizeMax

\* The bytes the descriptor names are exactly one valid encoding of the
\* request type (ClientInput: the tag of Foo and nothing more).
FullyConsumes(d) == DescBytes(heap, d) = LE32(0)

\* C14: plugitin_client_call traps whenever decoding does not consume
\* exactly the bytes the descriptor names: a call reaches user logic only on
\* bytes that are one valid encoding and nothing more (too short, not valid,
\* and valid with bytes behind it are all rejected), and it traps only on
\* bytes that are not.
C14_DecodeConsumesWholeRequest ==
    [][\A d \in HostDescs :
        /\ ClientCallEnter(d) => FullyConsumes(d)
        /\ (ClientCallTrap(d) /\ EntryTrapStep) => ~FullyConsumes(d)]_vars

\* A word is within its width: every limb is below 2^16.
InWidth(w, limbs) == Len(w) = limbs /\ \A i \in 1..limbs : w[i] \in 0..(Limb - 1)

\* C15: pack_buffer_desc(offset, length) = offset + length * 2^32, that is,
\* the 64-bit word whose base-2^16 digits are those of offset followed by
\* those of length (offset in bits [0,32), length in bits [32,64), neither
\* leaking into the other, nothing carried out of 64 bits); and
\* unpack_buffer_desc(v) = (v mod 2^32, v div 2^32), the two low digits and
\* the two high digits of v.  Both give a result on every argument.
C15_DescriptorLayoutIsArithmetic ==
    /\ codec.phase \in {"packed", "unpacked"} =>
            /\ InWidth(codec.packed, 4)
            /\ codec.packed = codec.ptr \o codec.len
    /\ codec.phase = "unpacked" =>
            /\ InWidth(codec.out[1], 2)
            /\ InWidth(codec.out[2], 2)
            /\ codec.out[1] = SubSeq(codec.packed, 1, 2)
            /\ codec.out[2] = SubSeq(codec.packed, 3, 4)

\* C15 witness: a descriptor was packed and unpacked whose offset has every
\* bit set and whose length has only its lowest and highest bits set.
C15_Witness ==
    /\ codec.phase = "unpacked"
    /\ codec.ptr = <<65535, 65535>>
    /\ codec.len = <<1, 32768>>

\* The steps a frame of CoolPlugin::call may take.
CoolOrder == {<<"user", "host_call">>, <<"host_call", "matched">>}

\* C16: with the example plugin, every client call whose request decodes
\* (as Foo) issues exactly one outbound call, whose request bytes are an
\* encoding of Baz and nothing more; it goes on only on a response that
\* decodes as Qux; and only then it returns, a descriptor whose bytes are an
\* encoding of Bar and nothing more.
C16_FooCallsBazOnceThenBar ==
    [][/\ Len(stack') > Len(stack) =>
            /\ \E d \in HostDescs : call_input(d) = Foo /\ ClientCallEnter(d)
            /\ stack'[Len(stack')].pc = "user"
       /\ \A i \in 1..Len(stack) :
            (i <= Len(stack') /\ stack'[i].pc # stack[i].pc) =>
                /\ i = Len(stack)
                /\ <<stack[i].pc, stack'[i].pc>> \in CoolOrder
       /\ HostCallStep =>
            /\ DescPtr(stack'[Len(stack')].desc) = hci'.ptr
            /\ deserialize_from(DescBytes(heap', stack'[Len(stack')].desc)) = [variant |-> 0, fields |-> <<>>]
            /\ DescLen(stack'[Len(stack')].desc) = VariantTagLen
       /\ (stack # <<>> /\ Len(stack') = Len(stack) /\ stack'[Len(stack')].pc = "matched") =>
            \E d \in HostDescs :
                deserialize_from(DescBytes(heap, d)) = [variant |-> 0, fields |-> <<>>]
       /\ (Len(stack') < Len(stack) /\ ret'.kind = "desc") =>
            /\ Top.pc = "matched"
            /\ DescPtr(ret'.packed) = cco'.ptr
            /\ deserialize_from(DescBytes(heap', ret'.packed)) = [variant |-> 0, fields |-> <<>>]
            /\ DescLen(ret'.packed) = VariantTagLen]_vars

\* C16 witness: a call has returned its Bar, with the Baz of its outbound
\* call still in host_call_input_buffer.
C16_Witness ==
    /\ info.live
    /\ stack = <<>>
    /\ ret.kind = "desc"
    /\ DescBytes(heap, ret.packed) = LE32(0)
    /\ hci.len = VariantTagLen
    /\ BoxBytes(heap, hci) = LE32(0)

\* The frame at depth k waits in plugitin_host_call.
AtHostCall(k) == Len(stack) >= k /\ stack[k].pc = "host_call"

\* The host answers every plugitin_host_call: no frame waits for ever.
HostAnswers == \A k \in 1..MaxDepth : AtHostCall(k) ~> ~AtHostCall(k)

\* C17: a top-level call whose request decodes, with user logic that makes
\* one outbound call (the example plugin) and a host that answers every
\* plugitin_host_call with bytes that decode, returns a descriptor in the
\* end.  Conversely a frame that waits in plugitin_host_call gets on only
\* by the host's return: no other step moves or ends it (no timeout, no
\* cancellation), so a host that never returns leaves it waiting for ever.
C17_CallReturnsIffHostAnswers ==
    /\ HostAnswers => ((stack # <<>>) ~> (stack = <<>> /\ ret.kind = "desc"))
    /\ [][\A i \in Waiting :
            (Len(stack') < i \/ stack'[i] # stack[i]) =>
                /\ i = Len(stack)
                /\ Len(stack') = Len(stack)
                /\ \E d \in HostDescs : CoolHostCallReturn(d)]_vars

\* C17 witness: a top-level call has returned its descriptor after the host
\* answered its outbound call from a region it still holds.
C17_Witness ==
    /\ info.live
    /\ stack = <<>>
    /\ ret.kind = "desc"
    /\ written.hci = VariantTagLen
    /\ written.cco = VariantTagLen
    /\ HostRegions # {}

\* This step ends a frame that waits in plugitin_host_call.
HostTrapStep ==
    /\ stack # <<>>
    /\ Top.pc = "host_call"
    /\ Len(stack') < Len(stack)

\* This step takes a frame from plugitin_host_call back into user logic.
ResumeStep ==
    /\ stack # <<>>
    /\ Top.pc = "host_call"
    /\ Len(stack') = Len(stack)
    /\ stack'[Len(stack')].pc # "host_call"

\* C18: when the host's response does not decode in Host::call, the call
\* ends there: the frame is gone at once (user logic is not resumed, the
\* outbound call is not made again), the host gets a trap and no descriptor,
\* and neither buffer nor anything else in the heap is written.  User logic
\* is resumed only on a response that decodes.
C18_NestedDecodeFailureEndsCall ==
    [][/\ HostTrapStep =>
            /\ \E d \in HostDescs : call_input(d) = DecodeError
            /\ stack' = Pop
            /\ ret'.kind = "trap"
            /\ info' = info
            /\ heap' = heap
       /\ ResumeStep =>
            /\ \E d \in HostDescs : call_input(d) # DecodeError /\ HostCallReturn(d)
            /\ \A d \in HostDescs : HostCallReturn(d) => call_input(d) # DecodeError]_vars

\* C18 witness: the instance's last call ended in a trap with the largest
\* request still in host_call_input_buffer, while no response has ever been
\* written to client_call_output_buffer and the host's region holds bytes
\* that do not decode.
C18_Witness ==
    /\ info.live
    /\ stack = <<>>
    /\ ret.kind = "trap"
    /\ written.hci = MaxSize
    /\ written.cco = 0
    /\ cco = EmptyBox
    /\ \E a \in HostRegions : heap[a].bytes[1] = 1

\* The step changed no region but those of the box before and after it.
WritesOnly(old, new) ==
    \A a \in HeapAddrs :
        heap'[a] # heap[a] => ((old.len > 0 /\ a = old.ptr) \/ (new.len > 0 /\ a = new.ptr))

\* The step left the box where it was, with its bytes as they were.
Untouched(old, new) == new = old /\ BoxBytes(heap', new) = BoxBytes(heap, old)

\* The step left every region the host holds as it was.
HostMemoryUntouched == \A a \in HostRegions : heap'[a] = heap[a]

\* This step is a step of the guest.
GuestStep ==
    \/ HostCallStep
    \/ ReturnStep
    \/ HostTrapStep
    \/ ResumeStep
    \/ EntryTrapStep
    \/ Len(stack') > Len(stack)

\* C19: the guest writes only to its own two buffers, and each operation
\* only to its own one.  Host::call changes no region but that of
\* host_call_input_buffer and leaves client_call_output_buffer as it was;
\* plugitin_client_call outside Host::call (entering, decoding, writing the
\* response, trapping) leaves host_call_input_buffer as it was and changes
\* no region but that of client_call_output_buffer; decoding a request or a
\* response writes nothing; and no guest step changes a region the host
\* holds (the request bytes, the response bytes).
C19_EachOperationWritesItsOwnBuffer ==
    [][/\ HostCallStep => (WritesOnly(hci, hci') /\ Untouched(cco, cco'))
       /\ ReturnStep => (WritesOnly(cco, cco') /\ Untouched(hci, hci'))
       /\ (Len(stack') > Len(stack) \/ EntryTrapStep \/ HostTrapStep \/ ResumeStep) =>
            (heap' = heap /\ cco' = cco /\ hci' = hci)
       /\ GuestStep => HostMemoryUntouched]_vars

\* C19 witness: a frame waits in plugitin_host_call on the largest request
\* while client_call_output_buffer holds an earlier response of the same
\* size and other bytes, and the host holds a region.
C19_Witness ==
    /\ info.live
    /\ stack # <<>>
    /\ Top.pc = "host_call"
    /\ DescLen(Top.desc) = MaxSize
    /\ cco.len = MaxSize
    /\ BoxBytes(heap, cco) # BoxBytes(heap, hci)
    /\ HostRegions # {}

\* C20: for every encoded size, narrowing it to the index width and to the
\* 32-bit length field loses nothing: the buffer is sized and compared with
\* the encoded size itself, and the length field of the descriptor that is
\* transmitted is the encoded size.
C20_LengthFieldIsEncodedSize ==
    /\ codec.phase \in {"sized", "written", "sent"} =>
            /\ codec.n = codec.size
            /\ ~Gt64(codec.size, codec.cap)
    /\ codec.phase = "sent" => AsU64(codec.desc_len) = codec.size

====
